---- MODULE Spec2Model ----
(***************************************************************************)
(* A model of src/mygrep.py: eval_nfa (subset simulation of an NFA without *)
(* lambda arrows), get_reachable_lambdas (worklist traversal of the lambda *)
(* arrows), reduce_nfa_lambdas (in-place lambda elimination) and           *)
(* infix2postfix (tokenizer + shunting yard).                              *)
(*                                                                         *)
(* Each function is run by its own specification (SpecEval, SpecReach,     *)
(* SpecReduce, SpecLang, SpecPostfix); the variables of the functions a    *)
(* specification does not run stay at their idle values.                   *)
(***************************************************************************)
EXTENDS Integers, Sequences, FiniteSets, TLC

VARIABLES
    pc,          \* position in the function being run
    delta,       \* the transition function: <<state, c>> -> set of states
    F,           \* the accept states
    delta0,      \* history: delta as passed by the caller
    F0,          \* history: F as passed by the caller
    \* reduce_nfa_lambdas
    delta_state, \* state -> (c -> set of states), the copy made in step 1
    F_new,       \* the accept states found in step 2
    todo,        \* the members of `states` the loop of step 2 has yet to visit
    \* get_reachable_lambdas
    start, reachable, stack,
    \* eval_nfa
    q,           \* the start state
    s,           \* the input
    k,           \* how many characters of s the loop has consumed
    states,      \* the states tracked
    ref,         \* history (SpecLang): the states of the caller's automaton
                 \* (delta0) that the consumed input can lead to, lambdas included
    \* infix2postfix
    expr, i, idx, infix, j, postfix, opstack, err

vars == <<pc, delta, F, delta0, F0, delta_state, F_new, todo, start, reachable,
          stack, q, s, k, states, ref, expr, i, idx, infix, j, postfix, opstack, err>>

nfaVars     == <<delta, F, delta0, F0>>
reduceVars  == <<delta_state, F_new, todo>>
reachVars   == <<start, reachable, stack>>
evalVars    == <<q, s, k, states, ref>>
postfixVars == <<expr, i, idx, infix, j, postfix, opstack, err>>

(***************************************************************************)
(* Bounds of the model.                                                    *)
(***************************************************************************)
MaxKeys == 3      \* entries of a delta handed to reduce / get_reachable
MaxArrows == 3    \* arrows of a delta, over all its entries
MaxEvalKeys == 2  \* entries of a delta handed to eval_nfa directly
MaxLen == 3       \* length of an input of eval_nfa
MaxExpr == 5      \* length of an expression handed to infix2postfix

Q == {"A", "B", "C"}          \* the states an automaton may use
Sigma == {"a", "b"}           \* the input characters
None == "None"                \* Python's None: the label of a lambda arrow

Idle == "idle"

Keys == Q \X (Sigma \cup {None})
SymbolKeys == Q \X Sigma

\* The arrows of a dictionary: <<(p, c), t>> for every t in d[(p, c)].
ArrowsOf(d) == {kt \in (DOMAIN d) \X Q : kt[2] \in d[kt[1]]}

\* The dictionaries with at most n entries, keys taken from ks, and at most
\* MaxArrows arrows in all (an entry may hold the empty set).
Deltas(ks, n) ==
    {d \in UNION {[K -> SUBSET Q] : K \in {S \in SUBSET ks : Cardinality(S) <= n}} :
        Cardinality(ArrowsOf(d)) <= MaxArrows}

\* delta[(p, c)] with an absent entry read as "no arrow".
Arrows(d, p, c) == IF <<p, c>> \in DOMAIN d THEN d[<<p, c>>] ELSE {}

\* Every order in which Python may iterate over the set S.
Orders(S) ==
    {f \in [1..Cardinality(S) -> S] : \A x \in S : \E n \in DOMAIN f : f[n] = x}

SomeOrder(S) == CHOOSE f \in Orders(S) : TRUE

(***************************************************************************)
(* get_reachable_lambdas                                                   *)
(***************************************************************************)
\* A bug: line 61 is missing, every neighbour is pushed.
ReachStepNoGuard(stk, rch, d, ord) ==
    LET state == stk[Len(stk)]
        rest  == SubSeq(stk, 1, Len(stk) - 1)
    IN  [stack |-> IF <<state, None>> \in DOMAIN d THEN rest \o ord ELSE rest,
         reachable |-> rch \cup {state}]

\* One iteration of the while loop (lines 55-64): pop, mark, push the
\* neighbours not yet marked, visiting them in the order ord.
ReachStep(stk, rch, d, ord) ==
    LET state == stk[Len(stk)]
        rest  == SubSeq(stk, 1, Len(stk) - 1)
        rch1  == rch \cup {state}
    IN  [stack |-> IF <<state, None>> \in DOMAIN d
                   THEN rest \o SelectSeq(ord, LAMBDA n : n \notin rch1)
                   ELSE rest,
         reachable |-> rch1]

LambdaNeighbors(stk, d) == Arrows(d, stk[Len(stk)], None)

RECURSIVE ReachLoop(_, _, _)
ReachLoop(stk, rch, d) ==
    IF stk = <<>> THEN rch
    ELSE LET nxt == ReachStep(stk, rch, d, SomeOrder(LambdaNeighbors(stk, d)))
         IN  ReachLoop(nxt.stack, nxt.reachable, d)

\* A bug: only the states one lambda arrow away are collected.
GetReachableLambdasOneStep(st, d) == Arrows(d, st, None) \ {st}

\* The function as a whole (lines 52-66).
GetReachableLambdas(st, d) == ReachLoop(<<st>>, {}, d) \ {st}

IdleNfa     == delta = <<>> /\ F = {} /\ delta0 = <<>> /\ F0 = {}
IdleReduce  == delta_state = <<>> /\ F_new = {} /\ todo = {}
IdleReach   == start = Idle /\ reachable = {} /\ stack = <<>>
IdleEval    == q = Idle /\ s = <<>> /\ k = 0 /\ states = {} /\ ref = {}
IdlePostfix == /\ expr = <<>> /\ i = 0 /\ idx = 0 /\ infix = <<>> /\ j = 0
               /\ postfix = <<>> /\ opstack = <<>> /\ err = Idle

\* The call get_reachable_lambdas(start, delta): lines 52-53.
InitReach ==
    /\ pc = "reach_loop"
    /\ delta \in Deltas(Keys, MaxKeys) /\ delta0 = delta
    /\ F = {} /\ F0 = {}
    /\ start \in Q
    /\ reachable = {}
    /\ stack = <<start>>
    /\ IdleReduce /\ IdleEval /\ IdlePostfix

\* Lines 54-64: one iteration of the while loop, for every order in which
\* the for loop of line 60 may visit the neighbours.
ReachPop ==
    /\ pc = "reach_loop"
    /\ Len(stack) > 0
    /\ \E ord \in Orders(LambdaNeighbors(stack, delta)) :
          LET nxt == ReachStep(stack, reachable, delta, ord)
          IN  /\ stack' = nxt.stack
              /\ reachable' = nxt.reachable
    /\ UNCHANGED <<pc, start, nfaVars, reduceVars, evalVars, postfixVars>>

\* A bug: line 65 is missing, start stays in the result.
ReachReturnKeepsStart ==
    /\ pc = "reach_loop"
    /\ Len(stack) = 0
    /\ pc' = "reach_done"
    /\ UNCHANGED <<start, reachable, stack, nfaVars, reduceVars, evalVars, postfixVars>>

\* Lines 65-66: the loop is over; remove start and return.
ReachReturn ==
    /\ pc = "reach_loop"
    /\ Len(stack) = 0
    /\ reachable' = reachable \ {start}
    /\ pc' = "reach_done"
    /\ UNCHANGED <<start, stack, nfaVars, reduceVars, evalVars, postfixVars>>

NextReach == ReachPop \/ ReachReturn

SpecReach == InitReach /\ [][NextReach]_vars

\* The loop is sequential code: an enabled step is taken.
SpecReachFair == SpecReach /\ WF_vars(NextReach)

(***************************************************************************)
(* reduce_nfa_lambdas                                                      *)
(***************************************************************************)
\* Line 95: the states that have an entry in delta.
KeyStates(d) == {key[1] : key \in DOMAIN d}

\* Step 1, lines 85-91: the per-state copy of the dictionary.
DeltaState(d) ==
    [p \in KeyStates(d) |->
        [c \in {key[2] : key \in {x \in DOMAIN d : x[1] = p}} |-> d[<<p, c>>]]]

\* A bug: line 112 assigns states_to instead of taking the union.
AddArrowsOverwrite(d, ds, state, rch) ==
    LET others == rch \cap DOMAIN ds
        from(c) == {o \in others : c \in DOMAIN ds[o]}
        syms == {c \in Sigma \cup {None} : c # None /\ from(c) # {}}
    IN  [key \in DOMAIN d \cup {<<state, c>> : c \in syms} |->
            IF key[1] = state /\ key[2] \in syms
            THEN ds[CHOOSE o \in from(key[2]) : TRUE][key[2]]
            ELSE d[key]]

\* Lines 105-112: the arrows that `state` gains from the states in rch, read
\* from the copy ds and written into the dictionary d.
AddArrows(d, ds, state, rch) ==
    LET others == rch \cap DOMAIN ds
        from(c) == {o \in others : c \in DOMAIN ds[o]}
        syms == {c \in Sigma \cup {None} : c # None /\ from(c) # {}}
    IN  [key \in DOMAIN d \cup {<<state, c>> : c \in syms} |->
            IF key[1] = state /\ key[2] \in syms
            THEN Arrows(d, state, key[2])
                   \cup UNION {ds[o][key[2]] : o \in from(key[2])}
            ELSE d[key]]

\* A bug: line 102 tests >= 0.
AddAcceptAlways(fnew, f, state, rch) ==
    IF Cardinality(rch \cap f) >= 0 THEN fnew \cup {state} ELSE fnew

\* Lines 102-103.
AddAccept(fnew, f, state, rch) ==
    IF Cardinality(rch \cap f) > 0 THEN fnew \cup {state} ELSE fnew

\* Lines 116-118.
RemoveLambdas(d) ==
    [key \in {x \in DOMAIN d : x[2] # None} |-> d[key]]

\* The call reduce_nfa_lambdas(delta, F).
InitReduce ==
    /\ pc = "step1"
    /\ delta \in Deltas(Keys, MaxKeys) /\ delta0 = delta
    /\ F \in SUBSET Q /\ F0 = F
    /\ IdleReduce /\ IdleReach /\ IdleEval /\ IdlePostfix

\* Step 1 and lines 95-96.
Snapshot ==
    /\ pc = "step1"
    /\ delta_state' = DeltaState(delta)
    /\ todo' = KeyStates(delta)
    /\ F_new' = {}
    /\ pc' = "step2"
    /\ UNCHANGED <<nfaVars, reachVars, evalVars, postfixVars>>

\* Lines 97-112: the body of the loop for one state; the loop visits the
\* members of the set `states` in an order Python chooses.
Visit(state) ==
    /\ pc = "step2"
    /\ state \in todo
    /\ LET rch == GetReachableLambdas(state, delta)
       IN  /\ F_new' = AddAccept(F_new, F, state, rch)
           /\ delta' = AddArrows(delta, delta_state, state, rch)
    /\ todo' = todo \ {state}
    /\ UNCHANGED <<pc, F, delta0, F0, delta_state, reachVars, evalVars, postfixVars>>

\* Lines 113-118: the loop is over; update F and remove the lambda arrows.
Finish ==
    /\ pc = "step2"
    /\ todo = {}
    /\ F' = F \cup F_new
    /\ delta' = RemoveLambdas(delta)
    /\ pc' = "done"
    /\ UNCHANGED <<delta0, F0, reduceVars, reachVars, evalVars, postfixVars>>

NextReduce == Snapshot \/ (\E state \in Q : Visit(state)) \/ Finish

SpecReduce == InitReduce /\ [][NextReduce]_vars

\* The function as a whole, the loop of step 2 run in one of its orders.
RECURSIVE ReduceLoop(_, _, _, _, _)
ReduceLoop(d, ds, f, fnew, td) ==
    IF td = {} THEN [delta |-> RemoveLambdas(d), F |-> f \cup fnew]
    ELSE LET state == CHOOSE x \in td : TRUE
             rch   == GetReachableLambdas(state, d)
         IN  ReduceLoop(AddArrows(d, ds, state, rch), ds, f,
                        AddAccept(fnew, f, state, rch), td \ {state})

ReduceNfaLambdas(d, f) == ReduceLoop(d, DeltaState(d), f, {}, KeyStates(d))

(***************************************************************************)
(* eval_nfa                                                                *)
(***************************************************************************)
\* A bug: line 27 assigns delta[(p, c)] instead of taking the union.
NextStatesOverwrite(sts, c, d) ==
    LET from == {x \in sts : <<x, c>> \in DOMAIN d}
    IN  IF from = {} THEN {} ELSE d[<<CHOOSE p \in from : TRUE, c>>]

\* Lines 22-28: the states tracked after one more character c.
NextStates(sts, c, d) ==
    UNION {d[<<p, c>>] : p \in {x \in sts : <<x, c>> \in DOMAIN d}}

\* Line 32.
EvalResult(sts, f) == Cardinality(sts \cap f) > 0

\* The inputs of length at most n.
Strings(n) == UNION {[1..m -> Sigma] : m \in 0..n}

\* The call eval_nfa(s, q, delta, F) on an automaton without lambda arrows.
InitEval ==
    /\ pc = "eval"
    /\ delta \in Deltas(SymbolKeys, MaxEvalKeys) /\ delta0 = delta
    /\ F \in SUBSET Q /\ F0 = F
    /\ q \in Q
    /\ s \in Strings(MaxLen)
    /\ k = 0
    /\ states = {q}
    /\ ref = {}
    /\ IdleReduce /\ IdleReach /\ IdlePostfix

\* Lines 21-28: the loop body for the next character of s.
EvalStep ==
    /\ pc = "eval"
    /\ k < Len(s)
    /\ states' = NextStates(states, s[k + 1], delta)
    /\ k' = k + 1
    /\ UNCHANGED <<pc, q, s, ref, nfaVars, reduceVars, reachVars, postfixVars>>

\* Line 32: the input is consumed; pc records the value returned.
EvalReturn ==
    /\ pc = "eval"
    /\ k = Len(s)
    /\ pc' = IF EvalResult(states, F) THEN "accept" ELSE "reject"
    /\ UNCHANGED <<nfaVars, reduceVars, reachVars, evalVars, postfixVars>>

NextEval == EvalStep \/ EvalReturn

SpecEval == InitEval /\ [][NextEval]_vars

(***************************************************************************)
(* reduce_nfa_lambdas followed by eval_nfa on what it leaves               *)
(***************************************************************************)
\* Lambda-NFA semantics of the caller's automaton, by the textbook closure.
RECURSIVE LambdaClosure(_, _)
LambdaClosure(S, d) ==
    LET S1 == S \cup UNION {Arrows(d, p, None) : p \in S}
    IN  IF S1 = S THEN S ELSE LambdaClosure(S1, d)

LambdaMove(S, c, d) ==
    LambdaClosure(UNION {Arrows(d, p, c) : p \in LambdaClosure(S, d)}, d)

InitLang ==
    /\ pc = "call"
    /\ delta \in Deltas(Keys, MaxKeys) /\ delta0 = delta
    /\ F \in SUBSET Q /\ F0 = F
    /\ IdleReduce /\ IdleReach /\ IdleEval /\ IdlePostfix

\* reduce_nfa_lambdas(delta, F), run to completion.
ReduceCall ==
    /\ pc = "call"
    /\ LET r == ReduceNfaLambdas(delta, F)
       IN  delta' = r.delta /\ F' = r.F
    /\ pc' = "done"
    /\ UNCHANGED <<delta0, F0, reduceVars, reachVars, evalVars, postfixVars>>

\* eval_nfa(s, q0, delta, F) starts (line 18).  Here the input is not
\* fixed beforehand: LangStep supplies its next character, so s and k stay
\* idle, every input of every length is run, and EvalResult(states, F) is
\* what line 32 returns if the input ends at the current state.
LangCall(q0) ==
    /\ pc = "done"
    /\ q' = q0
    /\ states' = {q0}
    /\ ref' = LambdaClosure({q0}, delta0)
    /\ pc' = "eval"
    /\ UNCHANGED <<s, k, nfaVars, reduceVars, reachVars, postfixVars>>

\* Lines 21-28 for the next character c of the input.
LangStep(c) ==
    /\ pc = "eval"
    /\ states' = NextStates(states, c, delta)
    /\ ref' = LambdaMove(ref, c, delta0)
    /\ UNCHANGED <<pc, q, s, k, nfaVars, reduceVars, reachVars, postfixVars>>

NextLang ==
    \/ ReduceCall
    \/ \E q0 \in Q : LangCall(q0)
    \/ \E c \in Sigma : LangStep(c)

SpecLang == InitLang /\ [][NextLang]_vars

(***************************************************************************)
(* infix2postfix                                                           *)
(*                                                                         *)
(* A Python string is a sequence of one-character strings; expr[n] of the  *)
(* source is expr[n + 1] here.  opstack is the list `stack` of the source. *)
(***************************************************************************)
Alphabet == {"a", "b", "*", "|", "(", ")", "\\"}

Exprs(n) == UNION {[1..m -> Alphabet] : m \in 0..n}

Ch(e, n) == e[n + 1]

Dot    == <<".">>
Star   == <<"*">>
Bar    == <<"|">>
LParen == <<"(">>
RParen == <<")">>

DigitChars == <<"0", "1", "2", "3", "4", "5", "6", "7", "8", "9">>

\* str(n) for n >= 0.
RECURSIVE Decimal(_)
Decimal(n) ==
    IF n < 10 THEN <<DigitChars[n + 1]>>
    ELSE Decimal(n \div 10) \o <<DigitChars[(n % 10) + 1]>>

\* Line 156: "{}_{}".format(c, n).
Format(c, n) == <<c, "_">> \o Decimal(n)

\* Line 163.
precedence == (Star :> 2) @@ (Dot :> 1) @@ (Bar :> 0)

InitPostfix ==
    /\ pc = "tokenize"
    /\ expr \in Exprs(MaxExpr)
    /\ i = 0 /\ idx = 0 /\ infix = <<>> /\ j = 0
    /\ postfix = <<>> /\ opstack = <<>> /\ err = Idle
    /\ IdleNfa /\ IdleReduce /\ IdleReach /\ IdleEval

\* Lines 148-151 and 160: an operator or a parenthesis at expr[i].
TokenizeOperator ==
    /\ pc = "tokenize"
    /\ i < Len(expr)
    /\ Ch(expr, i) \in {"*", "|", "(", ")"}
    /\ infix' = infix \o <<<<Ch(expr, i)>>>>
                  \o (IF Ch(expr, i) = "*" /\ i < Len(expr) - 1
                      THEN <<Dot>> ELSE <<>>)
    /\ i' = i + 1
    /\ UNCHANGED <<pc, expr, idx, j, postfix, opstack, err,
                   nfaVars, reduceVars, reachVars, evalVars>>

\* Lines 152-160: an operand at expr[i], escaped or not.  Reading expr[i]
\* after a backslash that ends the string raises IndexError (line 155).
TokenizeOperand ==
    /\ pc = "tokenize"
    /\ i < Len(expr)
    /\ Ch(expr, i) \notin {"*", "|", "(", ")"}
    /\ LET i1 == IF Ch(expr, i) = "\\" THEN i + 1 ELSE i
       IN  IF i1 >= Len(expr)
           THEN /\ pc' = "error"
                /\ err' = "IndexError"
                /\ i' = i1
                /\ UNCHANGED <<idx, infix>>
           ELSE /\ infix' = infix \o <<Format(Ch(expr, i1), idx)>>
                              \o (IF i1 < Len(expr) - 1
                                     /\ Ch(expr, i1 + 1) \notin {"*", "|", ")"}
                                  THEN <<Dot>> ELSE <<>>)
                /\ idx' = idx + 1
                /\ i' = i1 + 1
                /\ UNCHANGED <<pc, err>>
    /\ UNCHANGED <<expr, j, postfix, opstack, nfaVars, reduceVars, reachVars, evalVars>>

\* Line 147 is false: step 1 is over (lines 163-165).
TokenizeDone ==
    /\ pc = "tokenize"
    /\ i >= Len(expr)
    /\ pc' = "shunt"
    /\ UNCHANGED <<expr, i, idx, infix, j, postfix, opstack, err,
                   nfaVars, reduceVars, reachVars, evalVars>>

\* A bug: line 168 tests < (equal precedence stays on the stack).
PopsBeforeStrict(x, top) == top # LParen /\ precedence[x] < precedence[top]

\* Line 168: does the operator on top of the stack go out before x goes in?
PopsBefore(x, top) == top # LParen /\ precedence[x] <= precedence[top]

\* Lines 168-169: <<stack, postfix>> after the while loop for operator x.
RECURSIVE PopOperators(_, _, _)
PopOperators(x, stk, post) ==
    IF Len(stk) > 0 /\ PopsBefore(x, stk[Len(stk)])
    THEN PopOperators(x, SubSeq(stk, 1, Len(stk) - 1), post \o <<stk[Len(stk)]>>)
    ELSE <<stk, post>>

\* Lines 174-175: <<stack, postfix>> after the while loop for ")".
RECURSIVE PopToParen(_, _)
PopToParen(stk, post) ==
    IF Len(stk) > 0 /\ stk[Len(stk)] # LParen
    THEN PopToParen(SubSeq(stk, 1, Len(stk) - 1), post \o <<stk[Len(stk)]>>)
    ELSE <<stk, post>>

\* A guarded line 176: nothing is popped from an empty stack.
PopParenGuarded(sp) ==
    IF Len(sp[1]) = 0 THEN sp ELSE <<SubSeq(sp[1], 1, Len(sp[1]) - 1), sp[2]>>

\* Line 176: stack.pop() of a list in <<stack, postfix>>; the result is
\* <<>> when the list is empty (Python raises IndexError).
PopParen(sp) ==
    IF Len(sp[1]) = 0 THEN <<>> ELSE <<SubSeq(sp[1], 1, Len(sp[1]) - 1), sp[2]>>

\* Lines 166-179: the loop body for the token x = infix[j].
ShuntStep ==
    /\ pc = "shunt"
    /\ j < Len(infix)
    /\ LET x == infix[j + 1]
       IN  IF x \in DOMAIN precedence
           THEN LET r == PopOperators(x, opstack, postfix)
                IN  /\ opstack' = r[1] \o <<x>>
                    /\ postfix' = r[2]
                    /\ UNCHANGED <<pc, err>>
           ELSE IF x = LParen
           THEN /\ opstack' = opstack \o <<x>>
                /\ UNCHANGED <<pc, err, postfix>>
           ELSE IF x = RParen
           THEN LET r == PopToParen(opstack, postfix)
                    r2 == PopParen(r)
                IN  IF r2 = <<>>
                    THEN /\ pc' = "error"
                         /\ err' = "IndexError"
                         /\ opstack' = r[1]
                         /\ postfix' = r[2]
                    ELSE /\ opstack' = r2[1]
                         /\ postfix' = r2[2]
                         /\ UNCHANGED <<pc, err>>
           ELSE /\ postfix' = postfix \o <<x>>
                /\ UNCHANGED <<pc, err, opstack>>
    /\ j' = j + 1
    /\ UNCHANGED <<expr, i, idx, infix, nfaVars, reduceVars, reachVars, evalVars>>

Reverse(sq) == [n \in 1..Len(sq) |-> sq[Len(sq) + 1 - n]]

\* Lines 182-184: pop the rest of the operators and return postfix.
ShuntReturn ==
    /\ pc = "shunt"
    /\ j >= Len(infix)
    /\ postfix' = postfix \o Reverse(opstack)
    /\ opstack' = <<>>
    /\ pc' = "returned"
    /\ UNCHANGED <<expr, i, idx, infix, j, err, nfaVars, reduceVars, reachVars, evalVars>>

NextPostfix ==
    TokenizeOperator \/ TokenizeOperand \/ TokenizeDone \/ ShuntStep \/ ShuntReturn

SpecPostfix == InitPostfix /\ [][NextPostfix]_vars

\* One specification that runs any of the functions.
Init == InitEval \/ InitReach \/ InitReduce \/ InitLang \/ InitPostfix
Next == NextEval \/ NextReach \/ NextReduce \/ NextLang \/ NextPostfix
Spec == Init /\ [][Next]_vars

(***************************************************************************)
(* Reference notions the properties are stated with.                       *)
(***************************************************************************)
\* There is a path of one or more lambda arrows of d from p to t: t is a
\* lambda successor of p, or of a state such a path leads to.
LambdaPath(p, t, d) == t \in LambdaClosure(Arrows(d, p, None), d)

\* reach(p): the states other than p that lambda arrows lead to from p.
RefReach(p, d) == {t \in Q \ {p} : LambdaPath(p, t, d)}

HasLambda(d) == \E key \in DOMAIN d : key[2] = None

\* The states that the first n characters of w lead to from p0 in d.
RunsTo(w, n, p0, d) ==
    {t \in Q : \E path \in [0..n -> Q] :
        /\ path[0] = p0
        /\ path[n] = t
        /\ \A m \in 0..(n - 1) : path[m + 1] \in Arrows(d, path[m], w[m + 1])}

(***************************************************************************)
(* C1.  eval_nfa on the automaton that reduce_nfa_lambdas leaves answers   *)
(* exactly as the caller's automaton does under lambda-NFA semantics:      *)
(* whatever the start state and whatever input has been consumed, the      *)
(* value eval_nfa returns if the input ends here is True iff a state the   *)
(* caller's automaton can be in (lambda moves before, between and after    *)
(* the characters) is one of its accept states.                            *)
(***************************************************************************)
C1_SameLanguage ==
    pc = "eval" => (EvalResult(states, F) <=> (ref \cap F0 # {}))

\* An input accepted only through what the reduction added: no tracked
\* state was accepting for the caller, and an arrow was added.
C1_Witness ==
    /\ pc = "eval"
    /\ q \notin states
    /\ EvalResult(states, F)
    /\ states \cap F0 = {}
    /\ \E key \in DOMAIN delta : key \notin DOMAIN delta0

(***************************************************************************)
(* C2.  eval_nfa tracks, after each consumed prefix, exactly the states    *)
(* that some sequence of arrows labelled by the prefix leads to from q (an *)
(* absent entry is no arrow), and returns True iff such a sequence for the *)
(* whole input ends in F.                                                  *)
(***************************************************************************)
C2_EvalIsPathExistence ==
    /\ pc = "eval" => states = RunsTo(s, k, q, delta)
    /\ pc \in {"accept", "reject"} =>
          (pc = "accept" <=> RunsTo(s, Len(s), q, delta) \cap F # {})

\* Several states tracked at the end, only one of them accepting.
C2_Witness ==
    /\ pc = "accept"
    /\ Len(s) > 0
    /\ Cardinality(states) > 1
    /\ Cardinality(states \cap F) = 1

(***************************************************************************)
(* C5.  On a delta without lambda entries reduce_nfa_lambdas changes       *)
(* nothing: delta keeps its keys and the set of every key, F its members.  *)
(***************************************************************************)
C5_NoLambdaUnchanged ==
    ~HasLambda(delta0) =>
        /\ DOMAIN delta = DOMAIN delta0
        /\ \A key \in DOMAIN delta0 : delta[key] = delta0[key]
        /\ F = F0

C5_Witness ==
    /\ pc = "done"
    /\ ~HasLambda(delta0)
    /\ Cardinality(DOMAIN delta0) > 1
    /\ F0 # {} /\ F0 # Q

(***************************************************************************)
(* C6.  Whatever the order in which the loop of step 2 visits the states,  *)
(* reduce_nfa_lambdas ends with F = F0 + {p : reach(p) meets F0}, with     *)
(* delta[(p, c)] = delta0[(p, c)] + the delta0[(t, c)] of every t in       *)
(* reach(p) for every state p and character c (absent read as empty), and  *)
(* with no lambda entry; the arrows it adds are read from the copy made in *)
(* step 1, which stays the copy of the caller's delta.                     *)
(***************************************************************************)
C6_ReductionResult ==
    /\ pc \in {"step2", "done"} => delta_state = DeltaState(delta0)
    /\ pc = "done" =>
          LET reach == [p \in Q |-> RefReach(p, delta0)]
          IN  /\ F = F0 \cup {p \in Q : reach[p] \cap F0 # {}}
              /\ \A p \in Q : \A c \in Sigma :
                    Arrows(delta, p, c) =
                        Arrows(delta0, p, c)
                          \cup UNION {Arrows(delta0, t, c) : t \in reach[p]}
              /\ ~HasLambda(delta)

\* A state gained an arrow from a state two lambda arrows away, in a pass
\* over several states.
C6_Witness ==
    /\ pc = "done"
    /\ Cardinality(KeyStates(delta0)) > 1
    /\ \E p \in Q : \E t \in RefReach(p, delta0) : \E c \in Sigma :
          /\ t \notin Arrows(delta0, p, None)
          /\ Arrows(delta0, t, c) # {}
          /\ Arrows(delta0, p, c) = {}
          /\ Arrows(delta, p, c) = Arrows(delta0, t, c)

(***************************************************************************)
(* C7.  get_reachable_lambdas(start, delta) returns exactly the states     *)
(* other than start that one or more lambda arrows lead to from start.     *)
(***************************************************************************)
C7_ReachableIsLambdaReach ==
    pc = "reach_done" => reachable = RefReach(start, delta)

\* A lambda cycle leads back to start, and start has an arrow on a
\* character to a state that lambdas do not lead to.
C7_Witness ==
    /\ pc = "reach_done"
    /\ LambdaPath(start, start, delta)
    /\ start \notin Arrows(delta, start, None)
    /\ \E c \in Sigma : Arrows(delta, start, c) \ (reachable \cup {start}) # {}

(***************************************************************************)
(* C8.  The while loop of get_reachable_lambdas ends, lambda cycles and    *)
(* self-loops included: the function returns, and no iteration pushes a    *)
(* state that is already in the visited set.                               *)
(***************************************************************************)
PushesOnlyUnvisited ==
    \A n \in Len(stack)..Len(stack') : stack'[n] \notin reachable'

C8_ReachTerminates ==
    /\ <>(pc = "reach_done")
    /\ [][pc = "reach_loop" /\ pc' = "reach_loop" => PushesOnlyUnvisited]_vars

\* The traversal returned although start has a lambda self-loop.
C8_Witness ==
    /\ pc = "reach_done"
    /\ start \in Arrows(delta, start, None)
    /\ reachable # {}

(***************************************************************************)
(* Reference notions for infix2postfix.                                    *)
(***************************************************************************)
IsOperandToken(x) == x \notin {Dot, Star, Bar, LParen, RParen}

\* expr[n] is a backslash that escapes expr[n + 1] (it is not itself escaped).
RECURSIVE Escapes(_, _)
Escapes(e, n) ==
    /\ n >= 0 /\ n < Len(e)
    /\ Ch(e, n) = "\\"
    /\ ~Escapes(e, n - 1)

\* expr[n] is the unescaped character c.
Plain(e, n, c) == Ch(e, n) = c /\ ~Escapes(e, n - 1)

\* No backslash is left without a character to escape.
ValidEscapes(e) == ~Escapes(e, Len(e) - 1)

\* How many more "(" than ")" the first n characters hold.
Opened(e, n) ==
    Cardinality({m \in 0..(n - 1) : Plain(e, m, "(")})
      - Cardinality({m \in 0..(n - 1) : Plain(e, m, ")")})

\* Some ")" has no "(" open before it; some "(" is never closed.
UnmatchedClose(e) == \E n \in 0..(Len(e) - 1) : Plain(e, n, ")") /\ Opened(e, n) <= 0
UnmatchedOpen(e)  == ~UnmatchedClose(e) /\ Opened(e, Len(e)) > 0

\* The grammar  R ::= T ('|' T)*   T ::= F F*   F ::= A '*'*
\*              A ::= literal | '(' R ')'
\* where a literal is a character other than * | ( ) \ or a backslash
\* followed by any character.
RECURSIVE IsR(_), IsT(_), IsF(_), IsA(_)
IsA(e) ==
    \/ Len(e) = 1 /\ e[1] \notin {"*", "|", "(", ")", "\\"}
    \/ Len(e) = 2 /\ e[1] = "\\"
    \/ Len(e) > 2 /\ e[1] = "(" /\ e[Len(e)] = ")" /\ IsR(SubSeq(e, 2, Len(e) - 1))
IsF(e) ==
    \/ IsA(e)
    \/ Len(e) > 1 /\ e[Len(e)] = "*" /\ IsF(SubSeq(e, 1, Len(e) - 1))
IsT(e) ==
    \/ IsF(e)
    \/ \E n \in 1..(Len(e) - 1) : IsT(SubSeq(e, 1, n)) /\ IsF(SubSeq(e, n + 1, Len(e)))
IsR(e) ==
    \/ IsT(e)
    \/ \E n \in 2..(Len(e) - 1) :
          e[n] = "|" /\ IsR(SubSeq(e, 1, n - 1)) /\ IsT(SubSeq(e, n + 1, Len(e)))

WellFormed(e) == IsR(e)

\* The height of the evaluation stack after the first n tokens of post, or
\* -1 once an operator found too few items on it.
RECURSIVE Height(_, _)
Height(post, n) ==
    IF n = 0 THEN 0
    ELSE LET h == Height(post, n - 1)
             x == post[n]
         IN  IF h < 0 THEN -1
             ELSE IF x = Star THEN (IF h >= 1 THEN h ELSE -1)
             ELSE IF x \in {Dot, Bar} THEN (IF h >= 2 THEN h - 1 ELSE -1)
             ELSE h + 1

CountTokens(post, T) == Cardinality({n \in DOMAIN post : post[n] \in T})
CountOperands(post) == Cardinality({n \in DOMAIN post : IsOperandToken(post[n])})

ValidPostfix(post) ==
    /\ \A n \in DOMAIN post : post[n] \notin {LParen, RParen}
    /\ Height(post, Len(post)) = 1
    /\ CountTokens(post, {Dot, Bar}) = CountOperands(post) - 1

\* Inputs made of literals separated by single "|", a literal on both sides.
OnlyLiteralsAndBars(e) ==
    /\ Len(e) > 0
    /\ \A n \in DOMAIN e : e[n] \notin {"*", "(", ")", "\\"}
    /\ e[1] # "|" /\ e[Len(e)] # "|"
    /\ \A n \in 1..(Len(e) - 1) : ~(e[n] = "|" /\ e[n + 1] = "|")

\* The operand for the literal e[n]: its tag counts the literals before it.
RefOperand(e, n) == Format(e[n], Cardinality({m \in 1..(n - 1) : e[m] # "|"}))

\* The run of literals e[a..b]: x0 x1 . x2 . ...
RECURSIVE RefRun(_, _, _)
RefRun(e, a, b) ==
    IF b = a THEN <<RefOperand(e, a)>>
    ELSE RefRun(e, a, b - 1) \o <<RefOperand(e, b), Dot>>

\* The postfix of e[1..b], b the end of a run: run1 run2 | run3 | ...
RECURSIVE RefPostfix(_, _)
RefPostfix(e, b) ==
    LET a == CHOOSE n \in 1..b :
                 /\ \A m \in n..b : e[m] # "|"
                 /\ (n = 1 \/ e[n - 1] = "|")
    IN  IF a = 1 THEN RefRun(e, 1, b)
        ELSE RefPostfix(e, a - 2) \o RefRun(e, a, b) \o <<Bar>>

(***************************************************************************)
(* C3.  While more input follows, the infix list ends with "." whenever the *)
(* token just read and the one that follows are: two operands, an operand  *)
(* and "(", ")" and an operand, ")" and "(", or "*" and anything.          *)
(***************************************************************************)
C3_ConcatInserted ==
    pc = "tokenize" /\ 0 < i /\ i < Len(expr) /\ Len(infix) > 0 =>
        LET last == infix[Len(infix)]
            read == IF last = Dot /\ Len(infix) > 1
                    THEN infix[Len(infix) - 1] ELSE last
            operandNext == /\ Ch(expr, i) \notin {"*", "|", "(", ")"}
                           /\ (Ch(expr, i) = "\\" => i + 1 < Len(expr))
            parenNext   == Ch(expr, i) = "("
        IN  (\/ IsOperandToken(read) /\ (operandNext \/ parenNext)
             \/ read = RParen /\ (operandNext \/ parenNext)
             \/ read = Star)
            => last = Dot

(***************************************************************************)
(* C4.  On literals separated by single "|" infix2postfix returns the      *)
(* postfix of the parse in which concatenation binds tighter than union    *)
(* and both associate to the left, operands tagged 0, 1, 2, ... in input   *)
(* order; "a|b" gives a_0 b_1 | and "ab" gives a_0 b_1 .                    *)
(***************************************************************************)
C4_LiteralsAndBars ==
    /\ OnlyLiteralsAndBars(expr) =>
          /\ pc # "error"
          /\ pc = "returned" => postfix = RefPostfix(expr, Len(expr))
    /\ pc = "returned" /\ expr = <<"a", "|", "b">> =>
          postfix = <<<<"a", "_", "0">>, <<"b", "_", "1">>, <<"|">>>>
    /\ pc = "returned" /\ expr = <<"a", "b">> =>
          postfix = <<<<"a", "_", "0">>, <<"b", "_", "1">>, <<".">>>>

\* A union whose sides hold two concatenations between them.
C4_Witness ==
    /\ pc = "returned"
    /\ OnlyLiteralsAndBars(expr)
    /\ CountTokens(postfix, {Bar}) = 1
    /\ CountTokens(postfix, {Dot}) = 2
    /\ postfix[Len(postfix)] = Bar

(***************************************************************************)
(* C9.  As stated: no input with valid escapes makes infix2postfix raise,  *)
(* unbalanced parentheses included.                                        *)
(***************************************************************************)
C9_NeverRaises == ValidEscapes(expr) => pc # "error"

(***************************************************************************)
(* C9, amended.  With valid escapes infix2postfix raises (IndexError, from *)
(* stack.pop() on the empty stack) exactly when some ")" has no "(" open   *)
(* before it; otherwise it returns, and an unmatched "(" ends up in the    *)
(* sequence it returns.                                                    *)
(***************************************************************************)
C9_RaisesOnlyOnUnmatchedClose ==
    ValidEscapes(expr) =>
        /\ pc = "error" => UnmatchedClose(expr) /\ err = "IndexError"
        /\ pc = "returned" => ~UnmatchedClose(expr)
        /\ pc = "returned" /\ UnmatchedOpen(expr) =>
              CountTokens(postfix, {LParen}) = Opened(expr, Len(expr))

\* An unmatched "(" came out in the returned sequence, after an operand.
C9_Witness ==
    /\ pc = "returned"
    /\ ValidEscapes(expr)
    /\ UnmatchedOpen(expr)
    /\ Len(postfix) > 1
    /\ postfix[Len(postfix)] = LParen

(***************************************************************************)
(* C10.  On a well-formed expression infix2postfix returns a valid postfix *)
(* expression: no parenthesis token, a stack evaluation that never         *)
(* underflows and ends with one item, one "." or "|" less than operands.   *)
(***************************************************************************)
C10_ValidPostfix ==
    pc = "returned" /\ WellFormed(expr) => ValidPostfix(postfix)

====
